---------------------------- MODULE Spec2Model ----------------------------
(***************************************************************************)
(* Model of CoffeeShopAnalysis (src/coffee_shop_analysis_complete.py):     *)
(* the cleaning -> enrichment -> aggregation -> insight -> report pipeline *)
(* and the life cycle of one analysis object.                              *)
(*                                                                         *)
(* Value conventions.  A cell of a table is a tuple, and the empty tuple   *)
(* is the missing value (NaN / NaT / None):                                *)
(*   number    <<n, d>>   the rational n/d in lowest terms, d > 0          *)
(*                        (<<1, 0>> is +inf, the result of x/0, x > 0)     *)
(*   text      <<"abc">>                                                   *)
(*   date      <<y, m, d>>          time   <<h, m, s>>                     *)
(*   datetime  <<y, m, d, h, mi, s>>                                       *)
(* Floating point numbers are modelled as exact rationals; binary          *)
(* rounding error of float64 is outside the model.                         *)
(***************************************************************************)
EXTENDS Integers, Sequences, FiniteSets, TLC

VARIABLES excel_file, cleaned_data, analysis_results, cleaned_csv,
          report_file, outcome

vars == <<excel_file, cleaned_data, analysis_results, cleaned_csv,
          report_file, outcome>>

-----------------------------------------------------------------------------
(* Bounds of the model *)

\* most rows of one workbook sheet
MaxRows == 2

-----------------------------------------------------------------------------
(* float64 arithmetic, as exact rationals with NaN and inf *)

NaN == <<>>

IsNA(c) == c = <<>>

Abs(n) == IF n < 0 THEN -n ELSE n

Sign(n) == IF n < 0 THEN -1 ELSE IF n > 0 THEN 1 ELSE 0

RECURSIVE GCD(_, _)
GCD(a, b) == IF b = 0 THEN a ELSE GCD(b, a % b)

\* the number n/d (d >= 0); 0/0 is NaN, n/0 is +-inf
Norm(n, d) ==
    IF d = 0
    THEN IF n = 0 THEN NaN ELSE <<Sign(n), 0>>
    ELSE LET g == GCD(Abs(n), d) IN <<n \div g, d \div g>>

Num(n) == <<n, 1>>

Dec(n, d) == Norm(n, d)

FAdd(a, b) ==
    IF IsNA(a) \/ IsNA(b) THEN NaN
    ELSE Norm(a[1] * b[2] + b[1] * a[2], a[2] * b[2])

FSub(a, b) ==
    IF IsNA(a) \/ IsNA(b) THEN NaN
    ELSE Norm(a[1] * b[2] - b[1] * a[2], a[2] * b[2])

FMul(a, b) ==
    IF IsNA(a) \/ IsNA(b) THEN NaN
    ELSE Norm(a[1] * b[1], a[2] * b[2])

\* numpy division: 0/0 is NaN and x/0 is inf, neither raises
FDiv(a, b) ==
    IF IsNA(a) \/ IsNA(b) THEN NaN
    ELSE Norm(a[1] * b[2] * Sign(b[1]), a[2] * Abs(b[1]))

\* comparisons; every comparison with NaN is false
FGt(a, b) == ~IsNA(a) /\ ~IsNA(b) /\ a[1] * b[2] > b[1] * a[2]

FGe(a, b) == ~IsNA(a) /\ ~IsNA(b) /\ a[1] * b[2] >= b[1] * a[2]

FLt(a, b) == FGt(b, a)

FLe(a, b) == FGe(b, a)

Pow10(k) == IF k = 0 THEN 1 ELSE IF k = 1 THEN 10 ELSE IF k = 2 THEN 100 ELSE 1000

\* DataFrame.round(k): round half to even at k decimals; NaN and inf stay
Round(x, k) ==
    IF IsNA(x) THEN NaN
    ELSE IF x[2] = 0 THEN x
    ELSE LET p == Pow10(k)
             n == x[1] * p
             q == n \div x[2]
             r == n % x[2]
             up == \/ 2 * r > x[2]
                   \/ 2 * r = x[2] /\ q % 2 = 1
         IN  Norm(IF up THEN q + 1 ELSE q, p)

-----------------------------------------------------------------------------
(* calendar *)

NaT == <<>>

IsLeap(y) == (y % 4 = 0 /\ y % 100 # 0) \/ y % 400 = 0

DaysInMonth(y, m) ==
    IF m = 2 THEN (IF IsLeap(y) THEN 29 ELSE 28)
    ELSE IF m \in {4, 6, 9, 11} THEN 30 ELSE 31

\* days since 1970-01-01 of a valid date
Ordinal(dt) ==
    LET y   == IF dt[2] <= 2 THEN dt[1] - 1 ELSE dt[1]
        mp  == IF dt[2] > 2 THEN dt[2] - 3 ELSE dt[2] + 9
        era == y \div 400
        yoe == y - era * 400
        doy == (153 * mp + 2) \div 5 + dt[3] - 1
        doe == yoe * 365 + yoe \div 4 - yoe \div 100 + doy
    IN  era * 146097 + doe - 719468

\* Monday is 0, Sunday is 6
Weekday(dt) == (Ordinal(dt) + 3) % 7

DayNames == <<"Monday", "Tuesday", "Wednesday", "Thursday", "Friday",
              "Saturday", "Sunday">>

DayName(dt) == DayNames[Weekday(dt) + 1]

-----------------------------------------------------------------------------
(* tables: a DataFrame is its set of column names and its sequence of rows, *)
(* every row a record over those columns                                    *)

RawColumns == {"transaction_id", "transaction_date", "transaction_time",
               "transaction_qty", "unit_price", "store_location",
               "product_category", "product_detail"}

DataFrame(cols, rows) == [columns |-> cols, rows |-> rows]

\* data[col] = f(row), for every row (the column is added or replaced)
SetColumn(row, col, v) == (col :> v) @@ row

RECURSIVE SelectSeq2(_, _, _)
\* the rows r of s with Keep(r, s) true, in order
SelectSeq2(s, i, keep) ==
    IF i > Len(s) THEN <<>>
    ELSE IF keep[i] THEN <<s[i]>> \o SelectSeq2(s, i + 1, keep)
    ELSE SelectSeq2(s, i + 1, keep)

\* strings pandas reads as a missing value (a prefix of its default list)
NAStrings == {"", "NA", "N/A", "NaN", "nan", "null", "None"}

\* read_excel: an empty cell, and a text cell holding one of the default NA
\* strings, becomes NaN
ReadCell(c) == IF Len(c) = 1 /\ c[1] \in NAStrings THEN NaN ELSE c

ReadExcel(wb) ==
    DataFrame(RawColumns,
        [i \in 1..Len(wb) |->
            [col \in RawColumns |->
                IF col = "transaction_id" THEN wb[i][col]
                ELSE ReadCell(wb[i][col])]])

-----------------------------------------------------------------------------
(* _clean_data *)

\* pd.to_datetime(errors='coerce') of a date cell: a calendar date, or NaT
ParseDate(c) ==
    IF /\ Len(c) = 3
       /\ c[2] \in 1..12
       /\ c[3] >= 1
       /\ c[3] <= DaysInMonth(c[1], c[2])
    THEN c ELSE NaT

\* pd.to_datetime(format='%H:%M:%S', errors='coerce').dt.time: a time of
\* day, or NaT when the cell does not match the pattern
ParseTime(c) ==
    IF /\ Len(c) = 3
       /\ c[1] \in 0..23
       /\ c[2] \in 0..59
       /\ c[3] \in 0..59
    THEN c ELSE NaT

\* pd.to_numeric(errors='coerce'): a number, or NaN
ToNumeric(c) == IF Len(c) = 2 THEN c ELSE NaN

\* strftime('%Y-%m-%d') + ' ' + astype(str): the text of date and time; a
\* NaT time prints as the word NaT
DateTimeText(date, time) == date \o (IF time = NaT THEN <<"NaT">> ELSE time)

\* whether pd.to_datetime (errors='raise') parses the text
DateTimeParses(text) == Len(text) = 6

\* dropna(subset=cols)
DropNa(rows, cols) ==
    SelectSeq2(rows, 1, [i \in 1..Len(rows) |-> \A c \in cols : ~IsNA(rows[i][c])])

QtyPositive(row) == FGt(row.transaction_qty, Num(0))

\* PriceInRange without the upper limit of the range
PriceInRangeNoCeiling(row) == FGe(row.unit_price, Dec(1, 100))

PriceInRange(row) ==
    /\ FGe(row.unit_price, Dec(1, 100))
    /\ FLe(row.unit_price, Num(15))

\* drop_duplicates(): keep the first of the rows equal in every column
DropDuplicates(rows) ==
    SelectSeq2(rows, 1,
        [i \in 1..Len(rows) |-> \A j \in 1..(i - 1) : rows[j] # rows[i]])

MapRows(rows, F(_)) == [i \in 1..Len(rows) |-> F(rows[i])]

ParseDateTime(row) ==
    SetColumn(SetColumn(row, "transaction_date", ParseDate(row.transaction_date)),
              "transaction_time", ParseTime(row.transaction_time))

AddRevenue(row) ==
    SetColumn(row, "revenue", FMul(row.transaction_qty, row.unit_price))

AddDateTime(row) ==
    SetColumn(row, "datetime",
              DateTimeText(row.transaction_date, row.transaction_time))

AddTimeFeatures(row) ==
    [col \in DOMAIN row \cup {"year", "month", "day_of_week", "hour", "is_weekend"} |->
        CASE col = "year"        -> row.transaction_date[1]
          [] col = "month"       -> row.transaction_date[2]
          [] col = "day_of_week" -> DayName(row.transaction_date)
          [] col = "hour"        -> row.datetime[4]
          [] col = "is_weekend"  -> Weekday(row.transaction_date) >= 5
          [] OTHER               -> row[col]]

DerivedColumns == {"revenue", "datetime", "year", "month", "day_of_week",
                   "hour", "is_weekend"}

NumericQty(row) ==
    SetColumn(row, "transaction_qty", ToNumeric(row.transaction_qty))

NumericPrice(row) ==
    SetColumn(row, "unit_price", ToNumeric(row.unit_price))

\* data[mask]: the rows that satisfy Keep
Filter(rows, Keep(_)) ==
    SelectSeq2(rows, 1, [i \in 1..Len(rows) |-> Keep(rows[i])])

\* lines 57-73: the parsing and the filters, in the order of the code
ValidRows(rows) ==
    DropNa(
        Filter(MapRows(
            Filter(MapRows(
                DropNa(MapRows(rows, ParseDateTime), {"transaction_date"}),
                NumericQty), QtyPositive),
            NumericPrice), PriceInRange),
        {"store_location", "product_detail"})

\* lines 76-78: revenue and the text of the combined datetime
WithTexts(rows) == MapRows(MapRows(rows, AddRevenue), AddDateTime)

\* lines 77-99, for the rows `texts` of the original table df: to_datetime
\* raises on a text it cannot parse, the retention rate divides by the
\* original row count
Finish(df, texts) ==
    IF \E i \in 1..Len(texts) : ~DateTimeParses(texts[i].datetime)
    THEN [err |-> "ValueError", data |-> df]
    ELSE IF Len(df.rows) = 0
    THEN [err |-> "ZeroDivisionError", data |-> df]
    ELSE [err |-> "none",
          data |-> DataFrame(df.columns \cup DerivedColumns,
                             DropDuplicates(MapRows(texts, AddTimeFeatures)))]

\* [err, data]: err is "none" and data the cleaned table, or err names the
\* exception _clean_data raises
_clean_data(df) == Finish(df, WithTexts(ValidRows(df.rows)))

-----------------------------------------------------------------------------
(* _estimate_costs and the profit metrics of analyze_profitability *)

\* cost_rules: the share of revenue that each product category costs
cost_rules(category) ==
    CASE category = "Coffee"             -> Dec(35, 100)
      [] category = "Tea"                -> Dec(30, 100)
      [] category = "Drinking Chocolate" -> Dec(40, 100)
      [] category = "Frappé"             -> Dec(45, 100)
      [] category = "Smoothies"          -> Dec(50, 100)
      [] category = "Bakery"             -> Dec(60, 100)
      [] category = "Branded"            -> Dec(70, 100)
      [] category = "Flavours"           -> Dec(25, 100)
      [] OTHER                           -> NaN

\* .fillna(0.5)
FillNa(x, default) == IF IsNA(x) THEN default ELSE x

\* CostRatio with another default
CostRatioDefault40(cell) ==
    FillNa(IF IsNA(cell) THEN NaN ELSE cost_rules(cell[1]), Dec(40, 100))

\* .map(cost_rules).fillna(0.5)
CostRatio(cell) ==
    FillNa(IF IsNA(cell) THEN NaN ELSE cost_rules(cell[1]), Dec(50, 100))

WithCost(row, ratio) ==
    SetColumn(SetColumn(row, "estimated_cost_ratio", ratio),
              "estimated_cost", FMul(row.revenue, ratio))

_estimate_costs(row) == WithCost(row, CostRatio(row.product_category))

WithProfit(row, profit) ==
    SetColumn(SetColumn(row, "estimated_profit", profit),
              "profit_margin", FDiv(profit, row.revenue))

\* lines 114-115
AddProfit(row) == WithProfit(row, FSub(row.revenue, row.estimated_cost))

EnrichmentColumns == {"estimated_cost_ratio", "estimated_cost",
                      "estimated_profit", "profit_margin"}

\* lines 108-118: the enriched copy of cleaned_data
Enrich(df) ==
    DataFrame(df.columns \cup EnrichmentColumns,
              MapRows(MapRows(df.rows, _estimate_costs), AddProfit))

-----------------------------------------------------------------------------
(* aggregation helpers *)

\* the texts of the model in Python's str order (groupby sorts its keys)
CodePointOrder ==
    <<"Astoria", "Bakery", "Branded", "Coffee", "Friday", "Hell's Kitchen",
      "Latte", "Lower Manhattan", "Monday", "Mug", "Saturday", "Scone",
      "Sunday", "Thursday", "Tuesday", "Unknown", "Wednesday">>

Collate(s) == CHOOSE i \in 1..Len(CodePointOrder) : CodePointOrder[i] = s

\* order of group keys: texts by code point, numbers and (year, month)
\* pairs in the usual way
TextRank(k) == Collate(k[1])

IntRank(k) == k[1]

MonthRank(k) == k[1] * 12 + k[2]

SortKeys(S, Rank(_)) ==
    [i \in 1..Cardinality(S) |->
        CHOOSE k \in S : Cardinality({o \in S : Rank(o) < Rank(k)}) = i - 1]

\* the keys of groupby(col): the values of the column, NaN left out, sorted
GroupKeys(rows, Key(_), Rank(_)) ==
    SortKeys({Key(rows[i]) : i \in 1..Len(rows)} \ {NaN}, Rank)

GroupRows(rows, Key(_), k) ==
    SelectSeq2(rows, 1, [i \in 1..Len(rows) |-> Key(rows[i]) = k])

RECURSIVE SumFrom(_, _, _)
SumFrom(rows, col, i) ==
    IF i > Len(rows) THEN Num(0)
    ELSE FAdd(rows[i][col], SumFrom(rows, col, i + 1))

\* Series.sum(): 0 for no rows
Sum(rows, col) == SumFrom(rows, col, 1)

\* Series.mean(): NaN for no rows
Mean(rows, col) == FDiv(Sum(rows, col), Num(Len(rows)))

NUnique(rows, col) == Cardinality({rows[i][col] : i \in 1..Len(rows)} \ {NaN})

RECURSIVE InsertDesc(_, _, _)
InsertDesc(s, x, col) ==
    IF s = <<>> THEN <<x>>
    ELSE IF FLt(Head(s)[col], x[col]) THEN <<x>> \o s
    ELSE <<Head(s)>> \o InsertDesc(Tail(s), x, col)

RECURSIVE SortFrom(_, _, _)
SortFrom(s, col, i) ==
    IF i = 0 THEN <<>>
    ELSE InsertDesc(SortFrom(s, col, i - 1), s[i], col)

\* sort_values(col, ascending=False): NaN last, equal values keep their order
SortDesc(s, col) ==
    SortFrom(SelectSeq2(s, 1, [i \in 1..Len(s) |-> ~IsNA(s[i][col])]), col,
             Cardinality({i \in 1..Len(s) : ~IsNA(s[i][col])}))
    \o SelectSeq2(s, 1, [i \in 1..Len(s) |-> IsNA(s[i][col])])

\* idxmax(): the position of the first greatest value, NaN skipped
IdxMax(s, col) ==
    CHOOSE i \in 1..Len(s) :
        /\ ~IsNA(s[i][col])
        /\ \A j \in 1..Len(s) : IsNA(s[j][col]) \/ FLe(s[j][col], s[i][col])
        /\ \A j \in 1..(i - 1) : IsNA(s[j][col]) \/ FLt(s[j][col], s[i][col])

Head_(s, n) == SubSeq(s, 1, IF Len(s) < n THEN Len(s) ELSE n)

Tail_(s, n) == SubSeq(s, IF Len(s) < n THEN 1 ELSE Len(s) - n + 1, Len(s))

-----------------------------------------------------------------------------
(* the summaries of analyze_profitability *)

ProductKey(row) == row.product_detail

CategoryKey(row) == row.product_category

StoreKey(row) == row.store_location

MonthKey(row) == <<row.year, row.month>>

DayKey(row) == <<row.day_of_week>>

HourKey(row) == <<row.hour>>

\* profit / revenue of a summary row, both as held (rounded) in the summary
GroupMargin(profit, revenue) == Round(FDiv(profit, revenue), 3)

\* overall_profit_margin: guarded against a zero total
OverallMargin(total_profit, total_revenue) ==
    IF FGt(total_revenue, Num(0)) THEN FDiv(total_profit, total_revenue) ELSE Num(0)

Greatest(S) == CHOOSE d \in S : \A o \in S : o <= d

Least(S) == CHOOSE d \in S : \A o \in S : o >= d

\* (max - min).days + 1; NaT - NaT is NaT and its .days is NaN
PeriodDays(rows) ==
    IF Len(rows) = 0 THEN NaN
    ELSE Num(Greatest({Ordinal(rows[i].transaction_date) : i \in 1..Len(rows)})
             - Least({Ordinal(rows[i].transaction_date) : i \in 1..Len(rows)}) + 1)

FinancialSummary(rows, total_revenue, total_profit) ==
    [total_revenue          |-> total_revenue,
     total_estimated_cost   |-> Sum(rows, "estimated_cost"),
     total_estimated_profit |-> total_profit,
     overall_profit_margin  |-> OverallMargin(total_profit, total_revenue),
     total_transactions     |-> Len(rows),
     avg_transaction_value  |-> Mean(rows, "revenue"),
     avg_transaction_profit |-> Mean(rows, "estimated_profit"),
     analysis_period_days   |-> PeriodDays(rows)]

_analyze_financial_summary(rows) ==
    FinancialSummary(rows, Sum(rows, "revenue"), Sum(rows, "estimated_profit"))

\* the sum of a group's column, rounded to 2 decimals
Rounded(g, col) == Round(Sum(g, col), 2)

ProductMetrics(k, g, revenue, profit, qty) ==
    [key                 |-> k,
     revenue             |-> revenue,
     estimated_cost      |-> Rounded(g, "estimated_cost"),
     estimated_profit    |-> profit,
     transaction_qty     |-> qty,
     transaction_id      |-> Len(g),
     profit_margin       |-> GroupMargin(profit, revenue),
     avg_profit_per_unit |-> Round(FDiv(profit, qty), 2)]

ProductGroup(k, g) ==
    ProductMetrics(k, g, Rounded(g, "revenue"), Rounded(g, "estimated_profit"),
                   Rounded(g, "transaction_qty"))

ProductRows(rows, keys) ==
    [i \in 1..Len(keys) |->
        ProductGroup(keys[i], GroupRows(rows, ProductKey, keys[i]))]

ProductAnalysis(metrics) ==
    [product_metrics     |-> metrics,
     top_performers      |-> Head_(metrics, 10),
     bottom_performers   |-> Tail_(metrics, 5),
     total_products      |-> Len(metrics),
     profitable_products |->
        Cardinality({i \in 1..Len(metrics) :
                        FGt(metrics[i].estimated_profit, Num(0))})]

_analyze_products(rows) ==
    ProductAnalysis(
        SortDesc(ProductRows(rows, GroupKeys(rows, ProductKey, TextRank)),
                 "estimated_profit"))

CategoryMetrics(k, g, revenue, profit) ==
    [key              |-> k,
     revenue          |-> revenue,
     estimated_cost   |-> Rounded(g, "estimated_cost"),
     estimated_profit |-> profit,
     transaction_qty  |-> Rounded(g, "transaction_qty"),
     transaction_id   |-> Len(g),
     product_detail   |-> NUnique(g, "product_detail"),
     profit_margin    |-> GroupMargin(profit, revenue)]

CategoryGroup(k, g) ==
    CategoryMetrics(k, g, Rounded(g, "revenue"), Rounded(g, "estimated_profit"))

CategoryRows(rows, keys) ==
    [i \in 1..Len(keys) |->
        CategoryGroup(keys[i], GroupRows(rows, CategoryKey, keys[i]))]

\* revenue_share: the revenue over the sum of the revenue column
WithShare(metrics, all_revenue) ==
    [i \in 1..Len(metrics) |->
        SetColumn(metrics[i], "revenue_share",
                  Round(FDiv(metrics[i].revenue, all_revenue), 3))]

WithShares(metrics) == WithShare(metrics, Sum(metrics, "revenue"))

CategoryAnalysis(metrics) ==
    [category_metrics |-> metrics, total_categories |-> Len(metrics)]

_analyze_categories(rows) ==
    CategoryAnalysis(
        SortDesc(WithShares(CategoryRows(rows,
                    GroupKeys(rows, CategoryKey, TextRank))), "revenue"))

StoreMetrics(k, g, revenue, profit) ==
    [key                   |-> k,
     revenue               |-> revenue,
     estimated_cost        |-> Rounded(g, "estimated_cost"),
     estimated_profit      |-> profit,
     transaction_id        |-> Len(g),
     product_detail        |-> NUnique(g, "product_detail"),
     profit_margin         |-> GroupMargin(profit, revenue),
     avg_transaction_value |-> Round(FDiv(revenue, Num(Len(g))), 2)]

StoreGroup(k, g) ==
    StoreMetrics(k, g, Rounded(g, "revenue"), Rounded(g, "estimated_profit"))

StoreRows(rows, keys) ==
    [i \in 1..Len(keys) |->
        StoreGroup(keys[i], GroupRows(rows, StoreKey, keys[i]))]

StoreAnalysis(metrics) ==
    [store_metrics |-> metrics, total_stores |-> Len(metrics)]

_analyze_stores(rows) ==
    StoreAnalysis(
        SortDesc(StoreRows(rows, GroupKeys(rows, StoreKey, TextRank)), "revenue"))

MonthMetrics(k, g, revenue, profit) ==
    [year             |-> k[1],
     month            |-> k[2],
     revenue          |-> revenue,
     estimated_profit |-> profit,
     transaction_id   |-> Len(g),
     profit_margin    |-> GroupMargin(profit, revenue)]

MonthGroup(k, g) ==
    MonthMetrics(k, g, Rounded(g, "revenue"), Rounded(g, "estimated_profit"))

MonthRows(rows, keys) ==
    [i \in 1..Len(keys) |->
        MonthGroup(keys[i], GroupRows(rows, MonthKey, keys[i]))]

\* a row of daily_patterns or hourly_patterns: means, rounded
PatternGroup(k, g) ==
    [key              |-> k[1],
     revenue          |-> Round(Mean(g, "revenue"), 2),
     estimated_profit |-> Round(Mean(g, "estimated_profit"), 2),
     transaction_id   |-> Len(g)]

DayRows(rows, keys) ==
    [i \in 1..Len(keys) |->
        PatternGroup(keys[i], GroupRows(rows, DayKey, keys[i]))]

HourRows(rows, keys) ==
    [i \in 1..Len(keys) |->
        PatternGroup(keys[i], GroupRows(rows, HourKey, keys[i]))]

\* lines 270-277; idxmax of an empty column raises ValueError
TemporalAnalysis(monthly, daily, hourly) ==
    IF Len(monthly) = 0 \/ Len(daily) = 0 \/ Len(hourly) = 0
    THEN [err |-> "ValueError", value |-> <<>>]
    ELSE [err |-> "none",
          value |-> [monthly_trends  |-> monthly,
                     daily_patterns  |-> daily,
                     hourly_patterns |-> hourly,
                     peak_month |-> monthly[IdxMax(monthly, "revenue")].month,
                     peak_day   |-> daily[IdxMax(daily, "revenue")].key,
                     peak_hour  |-> hourly[IdxMax(hourly, "revenue")].key]]

\* [err, value]
_analyze_temporal_patterns(rows) ==
    TemporalAnalysis(MonthRows(rows, GroupKeys(rows, MonthKey, MonthRank)),
                     DayRows(rows, GroupKeys(rows, DayKey, TextRank)),
                     HourRows(rows, GroupKeys(rows, HourKey, IntRank)))

-----------------------------------------------------------------------------
(* _generate_insights *)

\* an empty dict
EmptyDict == [k \in {} |-> 0]

\* dict.get(key, default)
Get(dict, key, default) == IF key \in DOMAIN dict THEN dict[key] ELSE default

\* lines 287-293: the margin insight
MarginInsight(margin) ==
    IF FGt(margin, Dec(5, 10))
    THEN <<"Strong profitability with >50% profit margin">>
    ELSE IF FGt(margin, Dec(3, 10))
    THEN <<"Healthy profitability with moderate margins">>
    ELSE <<"Profitability needs improvement">>

\* line 293: the recommendation of the else branch
MarginRecommendation(margin) ==
    IF FGt(margin, Dec(5, 10)) \/ FGt(margin, Dec(3, 10))
    THEN <<>>
    ELSE << <<"Review pricing strategy and cost optimization">> >>

\* lines 302-304: the products of the summary with profit_margin < 0.2
LowPerformers(product_metrics) ==
    SelectSeq2(product_metrics, 1,
        [i \in 1..Len(product_metrics) |->
            FLt(product_metrics[i].profit_margin, Dec(2, 10))])

Recommend(low) ==
    IF Len(low) > 0
    THEN << <<"Review products with <20% profit margin", Len(low)>> >>
    ELSE <<>>

LowMarginRule(product_metrics) == Recommend(LowPerformers(product_metrics))

\* lines 313-317
StoreRule(store_metrics) ==
    IF Len(store_metrics) > 1
    THEN << <<"Best performing store", store_metrics[1].key[1]>> >>
    ELSE <<>>

Names(metrics) == [i \in 1..Len(metrics) |-> metrics[i].key[1]]

\* the lists, from the summaries the rules read; category.index[0] raises
\* IndexError on an empty summary, `computed` is the temporal analysis that
\* line 320 computes before it looks into the cache
Insights(financial, products, category, store, computed, temporal) ==
    IF Len(category.category_metrics) = 0
    THEN [err |-> "IndexError", value |-> <<>>]
    ELSE IF computed.err # "none"
    THEN [err |-> computed.err, value |-> <<>>]
    ELSE [err |-> "none",
          value |->
            [key_insights |->
                <<MarginInsight(financial.overall_profit_margin)>>
                \o << <<"Top 3 profit generators",
                        Names(Head_(products.top_performers, 3))>> >>
                \o << <<"Most profitable category",
                        category.category_metrics[1].key[1]>> >>
                \o StoreRule(store.store_metrics)
                \o << <<"Peak performance", temporal.peak_month,
                        temporal.peak_day, temporal.peak_hour>> >>,
             recommendations |->
                MarginRecommendation(financial.overall_profit_margin)
                \o LowMarginRule(products.product_metrics)]]

\* the temporal summary the rules read, given the one just computed
CachedTemporal(cached, computed) ==
    Get(cached, "temporal_analysis", computed.value)

InsightsFrom(rows, cached, computed) ==
    Insights(Get(cached, "financial_summary", _analyze_financial_summary(rows)),
             Get(cached, "product_analysis", _analyze_products(rows)),
             Get(cached, "category_analysis", _analyze_categories(rows)),
             Get(cached, "store_analysis", _analyze_stores(rows)),
             computed,
             CachedTemporal(cached, computed))

\* [err, value]; `cached` is self.analysis_results as the call finds it
_generate_insights(rows, cached) ==
    InsightsFrom(rows, cached, _analyze_temporal_patterns(rows))

-----------------------------------------------------------------------------
(* the object: self.cleaned_data, self.analysis_results and the two files *)
(* of self.output_dir                                                      *)

None == <<>>

NoFile == [exists |-> FALSE]

\* a call's result: the object after it and the exception it raised
Returned(self) == [self |-> self, err |-> "none"]

Raised(self, err) == [self |-> self, err |-> err]

\* ToCsv without the header row
ToCsvNoHeader(df) == [exists |-> TRUE, header |-> {}, lines |-> Len(df.rows)]

\* to_csv(index=False): a header of the column names and a line per row
ToCsv(df) == [exists |-> TRUE, header |-> df.columns, lines |-> Len(df.rows)]

\* lines 36-42, for the result of _clean_data
Save(self, cleaned) ==
    IF cleaned.err # "none" THEN Raised(self, cleaned.err)
    ELSE Returned([self EXCEPT !.cleaned_csv  = ToCsv(cleaned.data),
                               !.cleaned_data = cleaned.data])

load_and_clean_data(self, wb) == Save(self, _clean_data(ReadExcel(wb)))

\* line 105
NoCleanedData(self) == self.cleaned_data = None

\* lines 120-132, `stored` being the object after line 118
Analyses(stored, rows, temporal, insights) ==
    IF temporal.err # "none" THEN Raised(stored, temporal.err)
    ELSE IF insights.err # "none" THEN Raised(stored, insights.err)
    ELSE Returned([stored EXCEPT !.analysis_results =
            [financial_summary |-> _analyze_financial_summary(rows),
             product_analysis  |-> _analyze_products(rows),
             category_analysis |-> _analyze_categories(rows),
             store_analysis    |-> _analyze_stores(rows),
             temporal_analysis |-> temporal.value,
             insights_and_recommendations |-> insights.value]])

\* lines 108-132, `data` being the enriched copy of self.cleaned_data
Analyze(self, data) ==
    Analyses([self EXCEPT !.cleaned_data = data], data.rows,
             _analyze_temporal_patterns(data.rows),
             _generate_insights(data.rows, self.analysis_results))

analyze_profitability(self) ==
    IF NoCleanedData(self) THEN Raised(self, "ValueError")
    ELSE Analyze(self, Enrich(self.cleaned_data))

-----------------------------------------------------------------------------
(* report: the file is a sequence of sections, in the order written *)

Section(name, body) == [name |-> name, body |-> body]

\* line 333
NoResults(self) == self.analysis_results = EmptyDict

\* the row of the earliest (dir = 1) or latest (dir = -1) transaction_date
Extreme(rows, dir) ==
    CHOOSE i \in 1..Len(rows) : \A j \in 1..Len(rows) :
        dir * Ordinal(rows[i].transaction_date)
            <= dir * Ordinal(rows[j].transaction_date)

\* min() and max() of transaction_date; NaT for no rows
MinDate(rows) ==
    IF Len(rows) = 0 THEN NaT ELSE rows[Extreme(rows, 1)].transaction_date

MaxDate(rows) ==
    IF Len(rows) = 0 THEN NaT ELSE rows[Extreme(rows, -1)].transaction_date

\* lines 340-343
Title == <<Section("COFFEE SHOP SALES ANALYSIS", <<>>)>>

\* lines 344-345
Period(df) == <<Section("Analysis Period", <<MinDate(df.rows), MaxDate(df.rows)>>)>>

ExecutiveSummary(financial) ==
    <<Section("EXECUTIVE SUMMARY",
        [total_revenue          |-> Round(financial.total_revenue, 2),
         total_estimated_profit |-> Round(financial.total_estimated_profit, 2),
         overall_profit_margin  |-> Round(financial.overall_profit_margin, 3),
         total_transactions     |-> financial.total_transactions,
         analysis_period_days   |-> financial.analysis_period_days,
         average_daily_revenue  |->
            Round(FDiv(financial.total_revenue,
                       financial.analysis_period_days), 2)])>>

executive_summary(results) == ExecutiveSummary(results.financial_summary)

FinancialPerformance(financial) ==
    <<Section("FINANCIAL PERFORMANCE",
        [total_revenue          |-> Round(financial.total_revenue, 2),
         avg_transaction_value  |-> Round(financial.avg_transaction_value, 2),
         total_transactions     |-> financial.total_transactions,
         total_estimated_profit |-> Round(financial.total_estimated_profit, 2),
         overall_profit_margin  |-> Round(financial.overall_profit_margin, 3),
         avg_transaction_profit |-> Round(financial.avg_transaction_profit, 2)])>>

financial_performance(results) == FinancialPerformance(results.financial_summary)

ProductSection(products) ==
    <<Section("PRODUCT ANALYSIS",
        [total_products      |-> products.total_products,
         profitable_products |-> products.profitable_products,
         top_performers      |-> Names(products.top_performers),
         bottom_performers   |-> Names(products.bottom_performers)])>>

product_analysis(results) == ProductSection(results.product_analysis)

category_analysis(results) ==
    <<Section("CATEGORY ANALYSIS",
              Names(results.category_analysis.category_metrics))>>

store_analysis(results) ==
    <<Section("STORE ANALYSIS", Names(results.store_analysis.store_metrics))>>

TemporalSection(temporal) ==
    <<Section("TEMPORAL ANALYSIS",
        [peak_month |-> temporal.peak_month,
         peak_day   |-> temporal.peak_day,
         peak_hour  |-> temporal.peak_hour,
         months     |-> Len(temporal.monthly_trends)])>>

temporal_analysis(results) == TemporalSection(results.temporal_analysis)

\* RECOMMENDATIONS is left out when there is none
InsightSections(insights) ==
    <<Section("KEY INSIGHTS", insights.key_insights)>>
    \o (IF Len(insights.recommendations) > 0
        THEN <<Section("RECOMMENDATIONS", insights.recommendations)>>
        ELSE <<>>)

insights_and_recommendations(results) ==
    InsightSections(results.insights_and_recommendations)

data_quality_summary(df) ==
    <<Section("DATA QUALITY SUMMARY",
        [rows            |-> Len(df.rows),
         columns         |-> Cardinality(df.columns),
         date_range      |-> <<MinDate(df.rows), MaxDate(df.rows)>>,
         unique_products |-> NUnique(df.rows, "product_detail"),
         unique_stores   |-> NUnique(df.rows, "store_location")])>>

\* what open(report_path, 'w') and the with block leave on disk
Written(sections) == [exists |-> TRUE, sections |-> sections]

\* lines 336-372: the file is opened for writing, then written section by
\* section; strftime of NaT (no rows in cleaned_data) raises ValueError
\* after the title
WriteReport(self) ==
    IF MinDate(self.cleaned_data.rows) = NaT
    THEN Raised([self EXCEPT !.report_file = Written(Title)], "ValueError")
    ELSE Returned([self EXCEPT !.report_file =
            Written(Title
                    \o Period(self.cleaned_data)
                    \o executive_summary(self.analysis_results)
                    \o financial_performance(self.analysis_results)
                    \o product_analysis(self.analysis_results)
                    \o category_analysis(self.analysis_results)
                    \o store_analysis(self.analysis_results)
                    \o temporal_analysis(self.analysis_results)
                    \o insights_and_recommendations(self.analysis_results)
                    \o data_quality_summary(self.cleaned_data))])

\* report opening the file before it looks at the results
reportOpensFirst(self) ==
    IF NoResults(self)
    THEN Raised([self EXCEPT !.report_file = Written(<<>>)], "ValueError")
    ELSE WriteReport(self)

report(self) ==
    IF NoResults(self) THEN Raised(self, "ValueError") ELSE WriteReport(self)

\* lines 518-542: the report step and the return value
RunReport(reported) ==
    [self  |-> reported.self,
     err   |-> reported.err,
     stage |-> IF reported.err # "none" THEN "report" ELSE "none"]

\* lines 515-519
RunAnalysis(analyzed) ==
    IF analyzed.err # "none"
    THEN [self |-> analyzed.self, err |-> analyzed.err,
          stage |-> "analyze_profitability"]
    ELSE RunReport(report(analyzed.self))

\* lines 512-516
RunLoad(loaded) ==
    IF loaded.err # "none"
    THEN [self |-> loaded.self, err |-> loaded.err,
          stage |-> "load_and_clean_data"]
    ELSE RunAnalysis(analyze_profitability(loaded.self))

\* [self, err, stage]: the three steps in order, stopping at the first that
\* raises; the exception is caught and False returned
run_complete_analysis(self, wb) == RunLoad(load_and_clean_data(self, wb))

-----------------------------------------------------------------------------
(* the inputs: rows of the Transactions sheet, as cells before read_excel *)

Row(id, date, time, qty, price, store, category, product) ==
    [transaction_id   |-> id,
     transaction_date |-> date,
     transaction_time |-> time,
     transaction_qty  |-> qty,
     unit_price       |-> price,
     store_location   |-> store,
     product_category |-> category,
     product_detail   |-> product]

\* Scenario A of the specification: 2 x 3.50, Coffee
LatteSale ==
    Row(1, <<2023, 1, 1>>, <<8, 0, 0>>, Num(2), Dec(350, 100),
        <<"Astoria">>, <<"Coffee">>, <<"Latte">>)

\* a sale with cost ratio 0.70, in another store and month
MugSale ==
    Row(2, <<2023, 2, 6>>, <<14, 30, 0>>, Num(1), Num(10),
        <<"Hell's Kitchen">>, <<"Branded">>, <<"Mug">>)

\* Scenario B: a negative quantity
Refund ==
    Row(3, <<2023, 1, 2>>, <<9, 15, 0>>, Num(-1), Dec(350, 100),
        <<"Astoria">>, <<"Coffee">>, <<"Latte">>)

\* the rows of the workbooks an object is given over its life
SheetRows == {LatteSale, MugSale, Refund}

\* rows of one workbook: one fault or boundary value each
PipelineRows ==
    SheetRows \cup
    {\* Scenario C: a price above the range
     [LatteSale EXCEPT !.transaction_id = 4, !.unit_price = Num(20)],
     \* Scenario D: a category that is not in the table
     [LatteSale EXCEPT !.transaction_id = 5, !.product_category = <<"Unknown">>,
                       !.product_detail = <<"Scone">>, !.unit_price = Num(15)],
     \* no category
     [MugSale EXCEPT !.transaction_id = 6, !.product_category = <<>>],
     \* a time that is not HH:MM:SS
     [LatteSale EXCEPT !.transaction_id = 7, !.transaction_time = <<25, 61, 0>>],
     \* a date that is not in the calendar
     [MugSale EXCEPT !.transaction_id = 8, !.transaction_date = <<2023, 2, 30>>],
     \* an empty store cell, an empty product text
     [LatteSale EXCEPT !.transaction_id = 9, !.store_location = <<>>],
     [MugSale EXCEPT !.transaction_id = 10, !.product_detail = <<"">>],
     \* a quantity and a price that are not numbers
     [LatteSale EXCEPT !.transaction_id = 11, !.transaction_qty = <<"two">>],
     [MugSale EXCEPT !.transaction_id = 12, !.unit_price = <<>>],
     \* a tenth of a unit at the lowest price
     [LatteSale EXCEPT !.transaction_id = 13, !.transaction_qty = Dec(1, 10),
                       !.unit_price = Dec(1, 100),
                       !.store_location = <<"Lower Manhattan">>,
                       !.product_detail = <<"Scone">>,
                       !.product_category = <<"Bakery">>],
     \* one unit at the lowest price, cost ratio 0.70
     [MugSale EXCEPT !.transaction_id = 14, !.unit_price = Dec(1, 100)]}

\* the sheets of at most MaxRows rows over a set of rows
Workbooks(rows) == UNION {[1..n -> rows] : n \in 0..MaxRows}

\* the sheets that list every transaction once, in the order of the ids
Ledgers(rows) ==
    {wb \in Workbooks(rows) :
        \A i \in 1..(Len(wb) - 1) : wb[i].transaction_id < wb[i + 1].transaction_id}

-----------------------------------------------------------------------------
(* the state machine: one CoffeeShopAnalysis object and its output files *)

Self == [cleaned_data     |-> cleaned_data,
         analysis_results |-> analysis_results,
         cleaned_csv      |-> cleaned_csv,
         report_file      |-> report_file]

\* the call returns or raises: the object's fields and files become r.self
Becomes(r, op) ==
    /\ cleaned_data' = r.self.cleaned_data
    /\ analysis_results' = r.self.analysis_results
    /\ cleaned_csv' = r.self.cleaned_csv
    /\ report_file' = r.self.report_file
    /\ outcome' = [op |-> op, ok |-> r.err = "none", error |-> r.err,
                   stage |-> IF r.err = "none" THEN "none"
                             ELSE IF "stage" \in DOMAIN r THEN r.stage ELSE op]

\* __init__
InitObject ==
    /\ cleaned_data = None
    /\ analysis_results = EmptyDict
    /\ cleaned_csv = NoFile
    /\ report_file = NoFile
    /\ outcome = [op |-> "__init__", ok |-> TRUE, error |-> "none",
                  stage |-> "none"]

\* load_and_clean_data(), the workbook on disk being wb
LoadAndCleanData ==
    /\ UNCHANGED excel_file
    /\ \E wb \in excel_file :
          Becomes(load_and_clean_data(Self, wb), "load_and_clean_data")

AnalyzeProfitability ==
    /\ UNCHANGED excel_file
    /\ Becomes(analyze_profitability(Self), "analyze_profitability")

Report ==
    /\ UNCHANGED excel_file
    /\ Becomes(report(Self), "report")

RunCompleteAnalysis ==
    /\ UNCHANGED excel_file
    /\ \E wb \in excel_file :
          Becomes(run_complete_analysis(Self, wb), "run_complete_analysis")

Next == LoadAndCleanData \/ AnalyzeProfitability \/ Report \/ RunCompleteAnalysis

\* excel_file is the set of contents the workbook at self.excel_file may
\* have when a call reads it.  Spec: the workbook is rewritten between the
\* calls, with any ledger of the sheet rows
Init == excel_file = Ledgers(SheetRows) /\ InitObject

Spec == Init /\ [][Next]_vars

\* SpecPipeline: the workbook is left alone, every call reads the same sheet
InitPipeline ==
    /\ excel_file \in {{wb} : wb \in Workbooks(PipelineRows)}
    /\ InitObject

SpecPipeline == InitPipeline /\ [][Next]_vars

-----------------------------------------------------------------------------
(* properties *)

Range(seq) == {seq[i] : i \in 1..Len(seq)}

Blank == {NaN, <<"">>}

\* C1: every row of the cleaned table has a quantity above 0, a unit price
\* within [0.01, 15.00], revenue = quantity x unit price, and a store and a
\* product that are neither missing nor empty; no row of the workbook with a
\* missing or empty store or product is among the cleaned rows
C1_CleanRowsValid ==
    cleaned_data # None =>
        /\ \A row \in Range(cleaned_data.rows) :
            /\ FGt(row.transaction_qty, Num(0))
            /\ FGe(row.unit_price, Dec(1, 100))
            /\ FLe(row.unit_price, Num(15))
            /\ row.revenue = FMul(row.transaction_qty, row.unit_price)
            /\ row.store_location \notin Blank
            /\ row.product_detail \notin Blank
        /\ \A wb \in excel_file : \A raw \in Range(wb) :
            (raw.store_location \in Blank \/ raw.product_detail \in Blank)
                => \A row \in Range(cleaned_data.rows) :
                      row.transaction_id # raw.transaction_id

\* a sheet with a row of empty product text and a row out of the price
\* range has been cleaned, and a row survived
C1_Witness ==
    /\ outcome.op = "load_and_clean_data" /\ outcome.ok
    /\ Len(cleaned_data.rows) = 1
    /\ \E wb \in excel_file :
        /\ \E raw \in Range(wb) : raw.product_detail = <<"">>
        /\ \E raw \in Range(wb) : raw.product_detail # <<"">>

\* C2: analyze_profitability without cleaned data and report without
\* analysis results raise ValueError and leave cleaned_data,
\* analysis_results and both files as they were
C2_SequencingFaults ==
    [][/\ (outcome'.op = "analyze_profitability" /\ cleaned_data = None)
            => /\ outcome'.error = "ValueError"
               /\ UNCHANGED <<cleaned_data, analysis_results, cleaned_csv,
                              report_file>>
       /\ (outcome'.op = "report" /\ analysis_results = EmptyDict)
            => /\ outcome'.error = "ValueError"
               /\ UNCHANGED <<cleaned_data, analysis_results, cleaned_csv,
                              report_file>>]_vars

\* report was called on loaded data that had not been analysed
C2_Witness ==
    /\ outcome.op = "report" /\ outcome.error = "ValueError"
    /\ cleaned_data # None
    /\ analysis_results = EmptyDict
    /\ report_file = NoFile

\* the sections of a whole report, RECOMMENDATIONS aside
AllSections ==
    <<"COFFEE SHOP SALES ANALYSIS", "Analysis Period", "EXECUTIVE SUMMARY",
      "FINANCIAL PERFORMANCE", "PRODUCT ANALYSIS", "CATEGORY ANALYSIS",
      "STORE ANALYSIS", "TEMPORAL ANALYSIS", "KEY INSIGHTS",
      "DATA QUALITY SUMMARY">>

SectionNames(file) == [i \in 1..Len(file.sections) |-> file.sections[i].name]

IsRequired(name) == name # "RECOMMENDATIONS"

WholeReport(file) == SelectSeq(SectionNames(file), IsRequired) = AllSections

\* C3: after a report or a run_complete_analysis that failed, the report
\* file does not exist or holds a whole report
C3_NoPartialReport ==
    (outcome.op \in {"report", "run_complete_analysis"} /\ ~outcome.ok)
        => (~report_file.exists \/ WholeReport(report_file))

\* C4 as stated: after a successful run_complete_analysis the cleaned CSV
\* holds the original, the derived and the enrichment columns
C4_CsvHasEnrichment ==
    (outcome.op = "run_complete_analysis" /\ outcome.ok)
        => cleaned_csv.header
              = RawColumns \cup DerivedColumns \cup EnrichmentColumns

\* C4 amended: after a successful run_complete_analysis the cleaned CSV
\* holds the original and the derived columns and none of the enrichment
\* columns, which are columns of cleaned_data in memory only
C4_CsvColumns ==
    (outcome.op = "run_complete_analysis" /\ outcome.ok)
        => /\ cleaned_csv.exists
           /\ cleaned_csv.header = RawColumns \cup DerivedColumns
           /\ cleaned_csv.header \cap EnrichmentColumns = {}
           /\ EnrichmentColumns \subseteq cleaned_data.columns

\* a run has completed and written both files
C4_Witness ==
    /\ outcome.op = "run_complete_analysis" /\ outcome.ok
    /\ cleaned_csv.exists /\ cleaned_csv.lines > 0
    /\ report_file.exists

\* the cost ratio table of the specification, in hundredths
C5_Ratio(cell) ==
    IF cell = NaN THEN 50
    ELSE CASE cell[1] = "Coffee"             -> 35
           [] cell[1] = "Tea"                -> 30
           [] cell[1] = "Drinking Chocolate" -> 40
           [] cell[1] = "Frappé"             -> 45
           [] cell[1] = "Smoothies"          -> 50
           [] cell[1] = "Bakery"             -> 60
           [] cell[1] = "Branded"            -> 70
           [] cell[1] = "Flavours"           -> 25
           [] OTHER                          -> 50

\* C5: every enriched transaction has the cost ratio of its category from
\* the table (0.50 for a category outside it or missing), cost = revenue x
\* ratio, profit = revenue - cost and margin = profit / revenue; 2 x 3.50 of
\* Coffee gives revenue 7.00, cost 2.45, profit 4.55 and margin 0.65
C5_CostEnrichment ==
    (cleaned_data # None /\ EnrichmentColumns \subseteq cleaned_data.columns) =>
        \A row \in Range(cleaned_data.rows) :
            /\ row.estimated_cost_ratio = Dec(C5_Ratio(row.product_category), 100)
            /\ row.estimated_cost = FMul(row.revenue, row.estimated_cost_ratio)
            /\ row.estimated_profit = FSub(row.revenue, row.estimated_cost)
            /\ row.profit_margin = FDiv(row.estimated_profit, row.revenue)
            /\ row.profit_margin # NaN
            /\ (/\ row.transaction_qty = Num(2)
                /\ row.unit_price = Dec(350, 100)
                /\ row.product_category = <<"Coffee">>)
                  => /\ row.revenue = Num(7)
                     /\ row.estimated_cost = Dec(245, 100)
                     /\ row.estimated_profit = Dec(455, 100)
                     /\ row.profit_margin = Dec(65, 100)

\* the enriched table holds a row without category and the Coffee row of
\* the example
C5_Witness ==
    /\ outcome.op = "analyze_profitability"
    /\ cleaned_data # None
    /\ EnrichmentColumns \subseteq cleaned_data.columns
    /\ \E row \in Range(cleaned_data.rows) : row.product_category = NaN
    /\ \E row \in Range(cleaned_data.rows) :
          row.product_category = <<"Coffee">> /\ row.revenue = Num(7)

\* a summary row with revenue 0 has margin 0
C6_ZeroMargin(metrics) ==
    \A g \in Range(metrics) : g.revenue = Num(0) => g.profit_margin = Num(0)

\* C6: wherever the revenue of a transaction, of a product, category, store
\* or month of the summaries, or of the whole is 0, the margin is 0
C6_MarginZeroAtZeroRevenue ==
    analysis_results # EmptyDict =>
        /\ \A row \in Range(cleaned_data.rows) :
              (EnrichmentColumns \subseteq DOMAIN row /\ row.revenue = Num(0))
                  => row.profit_margin = Num(0)
        /\ C6_ZeroMargin(analysis_results.product_analysis.product_metrics)
        /\ C6_ZeroMargin(analysis_results.category_analysis.category_metrics)
        /\ C6_ZeroMargin(analysis_results.store_analysis.store_metrics)
        /\ C6_ZeroMargin(analysis_results.temporal_analysis.monthly_trends)
        /\ analysis_results.financial_summary.total_revenue = Num(0)
              => analysis_results.financial_summary.overall_profit_margin = Num(0)

\* _clean_data of the table that _clean_data has just returned
C7_Again == _clean_data(cleaned_data)

\* C7: cleaning the output of a cleaning returns a table of as many rows
C7_CleanerIdempotent ==
    (outcome.op = "load_and_clean_data" /\ outcome.ok)
        => /\ C7_Again.err = "none"
           /\ Len(C7_Again.data.rows) = Len(cleaned_data.rows)

C8_Strong == <<"Strong profitability with >50% profit margin">>

C8_Healthy == <<"Healthy profitability with moderate margins">>

C8_Needs == <<"Profitability needs improvement">>

C8_Pricing == <<"Review pricing strategy and cost optimization">>

C8_Expected(margin) ==
    IF FGt(margin, Dec(1, 2)) THEN C8_Strong
    ELSE IF FGt(margin, Dec(3, 10)) THEN C8_Healthy
    ELSE C8_Needs

C8_KeyInsights == analysis_results.insights_and_recommendations.key_insights

C8_Recommendations == analysis_results.insights_and_recommendations.recommendations

C8_Margin == analysis_results.financial_summary.overall_profit_margin

\* C8: the results of an analysis hold one margin insight, the first of the
\* insights: strong above 0.5, healthy above 0.3, needs improvement
\* otherwise, for the overall margin of these results; the pricing
\* recommendation is there exactly with the needs-improvement insight
C8_MarginRule ==
    analysis_results # EmptyDict =>
        /\ C8_KeyInsights[1] = C8_Expected(C8_Margin)
        /\ Cardinality({i \in 1..Len(C8_KeyInsights) :
              C8_KeyInsights[i] \in {C8_Strong, C8_Healthy, C8_Needs}}) = 1
        /\ (C8_Pricing \in Range(C8_Recommendations))
              <=> (C8_Expected(C8_Margin) = C8_Needs)

C9_Stores == analysis_results.store_analysis.store_metrics

C9_Best ==
    {ins \in Range(C8_KeyInsights) : ins[1] = "Best performing store"}

\* C9: the results hold a best-store insight exactly when their store
\* summary has more than one store, and it names a store of the highest
\* revenue
C9_BestStore ==
    analysis_results # EmptyDict =>
        /\ (C9_Best # {}) <=> (Len(C9_Stores) > 1)
        /\ \A best \in C9_Best : \E s \in Range(C9_Stores) :
              /\ s.key[1] = best[2]
              /\ \A o \in Range(C9_Stores) : FLe(o.revenue, s.revenue)

\* a row that is valid but for its time, which is not HH:MM:SS
C10_BadTimeOnly(raw) ==
    /\ ParseTime(ReadCell(raw.transaction_time)) = NaT
    /\ ParseDate(ReadCell(raw.transaction_date)) # NaT
    /\ FGt(ToNumeric(ReadCell(raw.transaction_qty)), Num(0))
    /\ FGe(ToNumeric(ReadCell(raw.unit_price)), Dec(1, 100))
    /\ FLe(ToNumeric(ReadCell(raw.unit_price)), Num(15))
    /\ ReadCell(raw.store_location) # NaN
    /\ ReadCell(raw.product_detail) # NaN

\* C10: load_and_clean_data of a sheet with such a row does not fail
C10_BadTimeDoesNotFail ==
    (/\ outcome.op = "load_and_clean_data"
     /\ \E wb \in excel_file : \E raw \in Range(wb) : C10_BadTimeOnly(raw))
        => outcome.ok

\* C11: a sheet without rows and a cleaned table without rows raise no
\* arithmetic or empty-group error: load_and_clean_data never ends in a
\* division by zero, and analyze_profitability of a cleaned table of no
\* rows completes
C11_DegenerateInputs ==
    /\ outcome.op \in {"load_and_clean_data", "run_complete_analysis"}
          => outcome.error # "ZeroDivisionError"
    /\ (/\ outcome.op \in {"analyze_profitability", "run_complete_analysis"}
        /\ outcome.stage # "load_and_clean_data"
        /\ cleaned_data # None
        /\ Len(cleaned_data.rows) = 0)
          => outcome.ok

\* C12: the insights stored with the results of an analysis name the top
\* products, the top category, the top store and the peaks of the summaries
\* stored with them, those of the data the analysis was run on
C12_InsightsFromCurrentData ==
    analysis_results # EmptyDict =>
        \A ins \in Range(C8_KeyInsights) :
            /\ ins[1] = "Top 3 profit generators"
                  => ins[2] = Names(Head_(
                        analysis_results.product_analysis.top_performers, 3))
            /\ ins[1] = "Most profitable category"
                  => ins[2] = analysis_results.category_analysis
                                  .category_metrics[1].key[1]
            /\ ins[1] = "Best performing store"
                  => ins[2] = C9_Stores[1].key[1]
            /\ ins[1] = "Peak performance"
                  => /\ ins[2] = analysis_results.temporal_analysis.peak_month
                     /\ ins[3] = analysis_results.temporal_analysis.peak_day
                     /\ ins[4] = analysis_results.temporal_analysis.peak_hour

\* the section of the report file of that name
C13_Section(name) ==
    (CHOOSE sec \in Range(report_file.sections) : sec.name = name).body

\* the rows of cleaned_data with the enrichment columns
C13_Rows ==
    IF EnrichmentColumns \subseteq cleaned_data.columns
    THEN cleaned_data.rows
    ELSE Enrich(cleaned_data).rows

\* C13: when report has written a report, the results it printed are those
\* of the cleaned data it printed: the summaries are the summaries of
\* cleaned_data, and in the file the transactions, products and stores of
\* the analysis sections are as many as the rows, unique products and unique
\* stores of the data quality section
C13_ReportOfCurrentData ==
    (outcome.op \in {"report", "run_complete_analysis"} /\ outcome.ok) =>
        /\ analysis_results.financial_summary
              = _analyze_financial_summary(C13_Rows)
        /\ analysis_results.product_analysis = _analyze_products(C13_Rows)
        /\ analysis_results.category_analysis = _analyze_categories(C13_Rows)
        /\ analysis_results.store_analysis = _analyze_stores(C13_Rows)
        /\ analysis_results.temporal_analysis
              = _analyze_temporal_patterns(C13_Rows).value
        /\ C13_Section("EXECUTIVE SUMMARY").total_transactions
              = C13_Section("DATA QUALITY SUMMARY").rows
        /\ C13_Section("PRODUCT ANALYSIS").total_products
              = C13_Section("DATA QUALITY SUMMARY").unique_products
        /\ Len(C13_Section("STORE ANALYSIS"))
              = C13_Section("DATA QUALITY SUMMARY").unique_stores

\* C14: every product of the product summary has a margin of at least
\* 0.30, and the recommendations never hold the review of products with a
\* margin below 20%
C14_NoLowMarginProducts ==
    analysis_results # EmptyDict =>
        /\ \A p \in Range(analysis_results.product_analysis.product_metrics) :
              FGe(p.profit_margin, Dec(30, 100))
        /\ \A rec \in Range(C8_Recommendations) :
              rec[1] # "Review products with <20% profit margin"

=============================================================================
